---- MODULE Spec2Model ----
(***************************************************************************)
(* Live signals of packages/signals/src/holochain.ts.                      *)
(*                                                                         *)
(* One signal is modelled at a time; Init picks which factory built it.    *)
(* The event loop is single threaded, so every callback (the watched and   *)
(* unwatched hooks, a timer callback, the continuation of a settled fetch  *)
(* promise with its then/catch/finally handlers, a push-event handler)     *)
(* runs to completion and is one action.                                   *)
(***************************************************************************)
EXTENDS Integers, Sequences, FiniteSets, TLC

\* ---------------------------------------------------------------- bounds
MaxSessions == 2
MaxLen == 2
MaxRetriesBound == 3

\* ------------------------------------------------------- values and hashes
Sessions == 1..MaxSessions
\* Hashes 2 and 3 carry different timestamps; 1 carries the timestamp of 2.
\* A signal is run over one of these universes of hashes.
Small == {2, 3}
Ties == {1, 2}
Full == {1, 2, 3}
Universes == {Small, Ties, Full}

\* An optional value (T | undefined) is a sequence of length at most one.
None == <<>>
Some(v) == <<v>>
IsSome(m) == Len(m) > 0
Get(m) == m[1]

\* Hashes 2k-1 and 2k carry the same timestamp, so that ties occur.
TsOf(h) == (h + 1) \div 2

\* Link (and, for the entry variants, record / action): identifier,
\* timestamp, and a payload field that is not part of the identity.
Item(h, g) == [hash |-> h, ts |-> TsOf(h), gen |-> g]
ItemsOf(U) == {Item(h, 0) : h \in U}

\* encodeHashToBase64 prefixes the multibase tag "u" to the base64 text of
\* the bytes; it is injective.
encodeHashToBase64(h) == <<"u", h>>

RECURSIVE SeqsUpTo(_, _)
SeqsUpTo(S, n) ==
  IF n = 0 THEN {<<>>}
  ELSE LET shorter == SeqsUpTo(S, n - 1)
       IN shorter \cup {Append(s, x) : s \in {t \in shorter : Len(t) = n - 1}, x \in S}

MapSeq(s, f(_)) == [i \in DOMAIN s |-> f(s[i])]
HashOfItem(l) == l.hash
HashesOf(s) == MapSeq(s, HashOfItem)

\* ------------------------------------------------------------ pure helpers
areArrayHashesEqual(array1, array2) ==
  IF Len(array1) # Len(array2) THEN FALSE
  ELSE \A i \in 1..Len(array1) :
         encodeHashToBase64(array1[i]) = encodeHashToBase64(array2[i])

\* A deduplication that would keep the first occurrence of a hash.
uniquifyLinksKeepFirst(links) ==
  LET isFirst(i) == \A j \in 1..(i - 1) : links[j].hash # links[i].hash
      idx == [i \in 1..Len(links) |-> i]
      firsts == SelectSeq(idx, isFirst)
  IN [k \in 1..Len(firsts) |-> links[firsts[k]]]

\* HoloHashMap keeps a key at the position of its first insertion and the
\* value of its last insertion.
uniquifyLinks(links) ==
  LET n == Len(links)
      idx == [i \in 1..n |-> i]
      isFirst(i) == \A j \in 1..(i - 1) : links[j].hash # links[i].hash
      lastOf(i) == CHOOSE j \in i..n :
                     /\ links[j].hash = links[i].hash
                     /\ \A k \in (j + 1)..n : links[k].hash # links[i].hash
      firsts == SelectSeq(idx, isFirst)
  IN [k \in 1..Len(firsts) |-> links[lastOf(firsts[k])]]

uniquifyActions(actions) == uniquifyLinks(actions)

sortLinksByTimestampAscending(linkA, linkB) == linkA.ts - linkB.ts
sortActionsByTimestampAscending(actionA, actionB) == actionA.ts - actionB.ts

\* Array.prototype.sort is stable: x goes after every element that does not
\* compare greater than it.
\* c[i][j] is the comparator's result on the i-th and j-th elements; the
\* result is the sequence of positions in sorted order.
RECURSIVE InsertStable(_, _, _)
InsertStable(sorted, i, c) ==
  IF sorted = <<>> THEN <<i>>
  ELSE IF c[sorted[Len(sorted)]][i] <= 0 THEN Append(sorted, i)
  ELSE Append(InsertStable(SubSeq(sorted, 1, Len(sorted) - 1), i, c),
              sorted[Len(sorted)])

RECURSIVE SortedPositions(_, _)
SortedPositions(n, c) ==
  IF n = 0 THEN <<>>
  ELSE InsertStable(SortedPositions(n - 1, c), n, c)

SortStable(s, cmp(_, _)) ==
  LET c == [i \in DOMAIN s |-> [j \in DOMAIN s |-> cmp(s[i], s[j])]]
      p == SortedPositions(Len(s), c)
  IN [k \in DOMAIN s |-> s[p[k]]]

\* uniquifyLinks(newLinksValue ? newLinksValue : []).sort(...)
OrderedNewLinks(newLinksValue) ==
  SortStable(uniquifyLinks(IF IsSome(newLinksValue) THEN Get(newLinksValue) ELSE <<>>),
             sortLinksByTimestampAscending)

\* ------------------------------------------------------------ async results
Pending == [status |-> "pending", value |-> None, error |-> ""]
Completed(v) == [status |-> "completed", value |-> Some(v), error |-> ""]
ErrorResult(e) == [status |-> "error", value |-> None, error |-> e]

NotFoundError == "NOT_FOUND"
FetchError == "FETCH_REJECTED"
Causes == {FetchError}

\* ------------------------------------------------------------- the variants
LinkVariants == {"collectionSignal", "liveLinksSignal"}
Mutable == LinkVariants \cup {"deletedLinksSignal", "latestVersionOfEntrySignal",
             "allRevisionsOfEntrySignal", "deletesForEntrySignal",
             "queryLiveEntriesSignal"}
Variants == Mutable \cup {"immutableEntrySignal"}

\* The fetch of these variants is an async function whose rejection is only
\* caught by the .catch attached to its first call in the watched hook.
CatchOnFirstOnly == {"deletedLinksSignal", "allRevisionsOfEntrySignal",
                     "deletesForEntrySignal", "queryLiveEntriesSignal"}

\* Addresses: a hash type and the 32 core bytes it tags.
HashTypes == {"AGENT", "ENTRY"}
Address(t, c) == [type |-> t, core |-> c]
getHashType(a) == a.type
retype(a, t) == [a EXCEPT !.type = t]

\* The arguments the factories are called with.
linkType == "T"
entry_type == "E"
originalActionHash == 2
BaseCore == "B"

VARIABLES
  cfg,        \* which factory built the signal, and its arguments
  observed,   \* the signal has an observer (watched and unwatched alternate)
  session,    \* number of runs of the watched hook that started a fetch
  active,     \* let active
  cached,     \* let cached (immutableEntrySignal)
  acc,        \* the cached accumulator: links, latestVersion, allRevisions, ...
  retries,    \* let retries, one per call of the watched hook
  chain,      \* per session: its fetch in flight or its pending timer
  handlers,   \* sessions whose onSignal handler is registered with the client
  unsubs,     \* let unsubs: the session whose unsubscribe function it holds
  signal,     \* the AsyncResult held by the Signal.State
  calls,      \* number of calls of the fetch function (saturates at CallCap)
  last,       \* the callback that ran last, and whether it called signal.set
  hist,       \* link collections, current session: what its last fetch returned
              \* and whether its cache was last written by a LinkCreated event
  join        \* joinAsyncMap: the children's results, the policy, the aggregate

vars == <<cfg, observed, session, active, cached, acc, retries, chain,
          handlers, unsubs, signal, calls, last, hist, join>>

\* calls is exact for immutableEntrySignal; for the polling variants it only
\* tells whether the fetch function has been called.
CallCap == IF cfg.variant = "immutableEntrySignal" THEN MaxSessions * cfg.maxRetries ELSE 1
Bump(n) == IF n < CallCap THEN n + 1 ELSE n

\* let links is declared inside the watched hook of collectionSignal, one
\* per session; every other variant declares its accumulator once.
Cell(s) == IF cfg.variant = "collectionSignal" THEN s ELSE 1

\* The links of a session of collectionSignal can be read only by that
\* session's callbacks: once its poll chain has ended and its handler is
\* unsubscribed the variable is garbage, which is written as unset.
Collect(a, ch, h) ==
  IF cfg.variant = "collectionSignal"
  THEN [s \in Sessions |-> IF ch[s] # "none" \/ s \in h THEN a[s] ELSE None]
  ELSE a

innerBaseAddress ==
  IF getHashType(cfg.baseAddress) = "AGENT"
  THEN retype(cfg.baseAddress, "ENTRY")
  ELSE cfg.baseAddress

\* The signals a factory can build over the hashes U: both forms of the
\* base address for the variants that take one, every retry budget for
\* immutableEntrySignal.
Config(v, n, t, U) ==
  [variant |-> v, maxRetries |-> n, baseAddress |-> Address(t, BaseCore), hashes |-> U,
   trace |-> "none", copies |-> FALSE]
ConfigsOf(V, U) ==
  {Config(v, 1, "ENTRY", U) : v \in (V \cap Mutable) \ {"liveLinksSignal", "deletedLinksSignal"}}
  \cup {Config(v, 1, t, U) : v \in V \cap {"liveLinksSignal", "deletedLinksSignal"},
                             t \in HashTypes}
  \cup {Config(v, n, "ENTRY", U) : v \in V \cap {"immutableEntrySignal"},
                                   n \in 1..MaxRetriesBound}

\* The same signals with the history of their link collection recorded:
\* "results" records ok, "events" records ok and ev.
Traced(C, tr) == {[c EXCEPT !.trace = tr] : c \in C}

\* The same signals over a source that can return a link in two copies.
WithCopies(C) == {[c EXCEPT !.copies = TRUE] : c \in C}

\* ok: the create_link_hash sequence, deduplicated and sorted, of the last
\* fulfilled fetch of the current session. ev: the cache of the current
\* session was set, a LinkCreated event handled between two polls then
\* published a new value, and nothing has written the cache since.
NoHist == [ok |-> None, ev |-> FALSE]
OrEmpty(a) == IF IsSome(a) THEN Get(a) ELSE <<>>
ElementsOf(s) == {s[i] : i \in DOMAIN s}
AfterResult(s, r, set) ==
  [ok |-> IF cfg.trace # "none" /\ observed /\ s = session
          THEN Some(HashesOf(OrderedNewLinks(r)))
          ELSE hist.ok,
   ev |-> IF set /\ Cell(s) = Cell(session) THEN FALSE ELSE hist.ev]
AfterEvent(ev, a, set) ==
  [ok |-> hist.ok,
   ev |-> IF cfg.trace = "events" /\ set
          THEN ev.type = "LinkCreated" /\ IsSome(a) /\ chain[session] = "timer"
          ELSE hist.ev]

\* A constructor that would call fetch itself, before any observer.
ConstructedEager ==
  /\ observed = FALSE
  /\ session = 0
  /\ active = FALSE
  /\ cached = FALSE
  /\ acc = [s \in Sessions |-> None]
  /\ retries = [s \in Sessions |-> 0]
  /\ chain = [s \in Sessions |-> IF s = 1 THEN "first" ELSE "none"]
  /\ handlers = {}
  /\ unsubs = 0
  /\ signal = Pending
  /\ calls = 1
  /\ last = [op |-> "init", set |-> FALSE]
  /\ hist = NoHist

\* new Signal.State({ status: 'pending' }, {...}): the hooks are only
\* declared, nothing runs.
Constructed ==
  /\ observed = FALSE
  /\ session = 0
  /\ active = FALSE
  /\ cached = FALSE
  /\ acc = [s \in Sessions |-> None]
  /\ retries = [s \in Sessions |-> 0]
  /\ chain = [s \in Sessions |-> "none"]
  /\ handlers = {}
  /\ unsubs = 0
  /\ signal = Pending
  /\ calls = 0
  /\ last = [op |-> "init", set |-> FALSE]
  /\ hist = NoHist

\* No joinAsyncMap is in play.
NoJoin == [children |-> <<>>, errors |-> "", result |-> Pending]

Init == cfg \in ConfigsOf(Variants, Small) /\ Constructed /\ join = NoJoin


\* ----------------------------------------------- what a callback does
\* The accumulator and the AsyncResult a callback leaves, and whether it
\* called signal.set.
Keep(a, sg) == [acc |-> a, sig |-> sg, set |-> FALSE]
Publish(v) == [acc |-> Some(v), sig |-> Completed(v), set |-> TRUE]
Fail(a, e) == [acc |-> a, sig |-> ErrorResult(e), set |-> TRUE]

\* A maybeSet that would publish without comparing with the cache.
maybeSetAlways(a, sg, newLinksValue) ==
  IF ~active THEN Keep(a, sg) ELSE Publish(OrderedNewLinks(newLinksValue))

\* collectionSignal and liveLinksSignal: const maybeSet = (newLinksValue) => ...
maybeSet(a, sg, newLinksValue) ==
  IF ~active THEN Keep(a, sg)
  ELSE LET orderedNewLinks == OrderedNewLinks(newLinksValue)
       IN IF \/ ~IsSome(a)
             \/ ~areArrayHashesEqual(HashesOf(orderedNewLinks), HashesOf(Get(a)))
          THEN Publish(orderedNewLinks)
          ELSE Keep(a, sg)

\* deletedLinksSignal: an item is a create link paired with its deletes.
Pair(c, d) == [cl |-> c, dls |-> d]
PairHash(p) == p.cl.hash
sortDeletedLinksByTimestampAscending(linkA, linkB) == linkA.cl.ts - linkB.cl.ts

\* A maybeSet that would go on to the comparison of the create links
\* whatever the nested lists are.
maybeSetDeletedNoReturn(a, sg, newDeletedLinks) ==
  IF ~active THEN Keep(a, sg)
  ELSE LET byCreate == SortStable(newDeletedLinks, sortDeletedLinksByTimestampAscending)
           orderedNewLinks ==
             [i \in DOMAIN byCreate |->
                Pair(byCreate[i].cl,
                     SortStable(byCreate[i].dls, sortActionsByTimestampAscending))]
       IN IF \/ ~IsSome(a)
             \/ ~areArrayHashesEqual(MapSeq(orderedNewLinks, PairHash),
                                     MapSeq(Get(a), PairHash))
          THEN Publish(orderedNewLinks)
          ELSE Keep(a, sg)

maybeSetDeleted(a, sg, newDeletedLinks) ==
  IF ~active THEN Keep(a, sg)
  ELSE LET byCreate == SortStable(newDeletedLinks, sortDeletedLinksByTimestampAscending)
           orderedNewLinks ==
             [i \in DOMAIN byCreate |->
                Pair(byCreate[i].cl,
                     SortStable(byCreate[i].dls, sortActionsByTimestampAscending))]
           returnsEarly ==
             /\ IsSome(a)
             /\ \E i \in DOMAIN orderedNewLinks :
                  \/ i > Len(Get(a))
                  \/ ~areArrayHashesEqual(HashesOf(orderedNewLinks[i].dls),
                                          HashesOf(Get(a)[i].dls))
       IN IF returnsEarly THEN Keep(a, sg)
          ELSE IF \/ ~IsSome(a)
                  \/ ~areArrayHashesEqual(MapSeq(orderedNewLinks, PairHash),
                                          MapSeq(Get(a), PairHash))
          THEN Publish(orderedNewLinks)
          ELSE Keep(a, sg)

\* latestVersionOfEntrySignal: the body of fetch after the await.
latestVersionResolved(a, sg, nlatestVersion) ==
  IF IsSome(nlatestVersion)
  THEN IF \/ ~IsSome(a)
          \/ encodeHashToBase64(Get(a).hash) # encodeHashToBase64(Get(nlatestVersion).hash)
       THEN Publish(Get(nlatestVersion))
       ELSE Keep(a, sg)
  ELSE Fail(a, NotFoundError)

\* allRevisionsOfEntrySignal and queryLiveEntriesSignal: after the await.
allRevisionsResolved(a, sg, nAllRevisions) ==
  IF \/ ~IsSome(a)
     \/ ~areArrayHashesEqual(HashesOf(Get(a)), HashesOf(Get(nAllRevisions)))
  THEN Publish(Get(nAllRevisions))
  ELSE Keep(a, sg)

\* deletesForEntrySignal: after the await.
deletesResolved(a, sg, ndeletes) ==
  IF /\ IsSome(ndeletes)
     /\ \/ ~IsSome(a)
        \/ ~areArrayHashesEqual(HashesOf(Get(a)), HashesOf(Get(ndeletes)))
  THEN Publish(uniquifyActions(Get(ndeletes)))
  ELSE Keep(a, sg)

\* What the settled promise's handlers do with a fulfilled fetch.
Resolved(a, sg, r) ==
  CASE cfg.variant \in LinkVariants -> maybeSet(a, sg, r)
    [] cfg.variant = "deletedLinksSignal" -> maybeSetDeleted(a, sg, Get(r))
    [] cfg.variant = "latestVersionOfEntrySignal" -> latestVersionResolved(a, sg, r)
    [] cfg.variant \in {"allRevisionsOfEntrySignal", "queryLiveEntriesSignal"} ->
         allRevisionsResolved(a, sg, r)
    [] cfg.variant = "deletesForEntrySignal" -> deletesResolved(a, sg, r)

\* What they do with a rejected fetch. collectionSignal chains .catch on
\* every fetch and latestVersionOfEntrySignal catches inside fetch; in
\* liveLinksSignal the promise is not returned by fetch, so nothing catches
\* it; the others catch only the rejection of the session's first call.
Rejected(a, sg, e, isFirst) ==
  CASE cfg.variant \in {"collectionSignal", "latestVersionOfEntrySignal"} -> Fail(a, e)
    [] cfg.variant = "liveLinksSignal" -> Keep(a, sg)
    [] cfg.variant \in CatchOnFirstOnly -> IF isFirst THEN Fail(a, e) ELSE Keep(a, sg)

\* ------------------------------------------------------------- push events
\* type "" is a payload without a type tag. action is the committed action
\* (the create link, the delete link, the create, update or delete); ref is
\* the hash of create_link_action (LinkDeleted), original_action_address
\* (EntryUpdated) or deletes_address (EntryDeleted); base is the
\* base_address of the create link; app_type is app_entry.type.
Event(t, lt, at, b, x, r) ==
  [type |-> t, link_type |-> lt, app_type |-> at, base |-> b, action |-> x, ref |-> r]

Bases == {Address("AGENT", BaseCore), Address("ENTRY", BaseCore), Address("ENTRY", "X")}
NoBase == Address("ENTRY", "X")

\* The events delivered to a signal of variant v. Of the kinds its handler
\* looks at: every event of the configured link or entry type, and one of
\* another type; of the kinds it does not look at: one each. The delete
\* action of a LinkDeleted event is read by deletedLinksSignal only, and the
\* base address by liveLinksSignal and deletedLinksSignal only.
EventBases(v) == IF v \in {"liveLinksSignal", "deletedLinksSignal"} THEN Bases ELSE {NoBase}
OtherLinkType == "U"
OtherEntryType == "F"

LinkCreatedEvents(v, U) ==
  {Event("LinkCreated", linkType, entry_type, b, x, x.hash) :
     b \in EventBases(v), x \in ItemsOf(U)}
  \cup {Event("LinkCreated", OtherLinkType, entry_type, Address("ENTRY", BaseCore),
              Item(2, 0), 2)}
LinkDeletedEvents(v, U) ==
  {Event("LinkDeleted", linkType, entry_type, b, x, r) :
     b \in EventBases(v),
     x \in IF v = "deletedLinksSignal" THEN ItemsOf(U) ELSE {Item(2, 0)},
     r \in U}
  \cup {Event("LinkDeleted", OtherLinkType, entry_type, Address("ENTRY", BaseCore),
              Item(2, 0), 2)}
EntryCreatedEvents(U) ==
  {Event("EntryCreated", linkType, at, NoBase, x, x.hash) :
     at \in {entry_type, OtherEntryType}, x \in ItemsOf(U)}
EntryUpdatedEvents(U) ==
  {Event("EntryUpdated", linkType, entry_type, NoBase, x, r) : x \in ItemsOf(U), r \in U}
EntryDeletedEvents(U) ==
  {Event("EntryDeleted", linkType, entry_type, NoBase, x, r) : x \in ItemsOf(U), r \in U}
Untagged == Event("", linkType, entry_type, NoBase, Item(2, 0), 2)
Sample(S) == {CHOOSE ev \in S : TRUE}

EventsOf ==
  [v \in Mutable |-> [U \in Universes |->
     {Untagged}
     \cup (CASE v \in LinkVariants ->
                 LinkCreatedEvents(v, U) \cup LinkDeletedEvents(v, U)
                   \cup Sample(EntryCreatedEvents(U))
             [] v = "deletedLinksSignal" ->
                 LinkDeletedEvents(v, U) \cup Sample(LinkCreatedEvents(v, U))
             [] v \in {"latestVersionOfEntrySignal", "allRevisionsOfEntrySignal"} ->
                 EntryUpdatedEvents(U) \cup Sample(EntryDeletedEvents(U))
             [] v = "deletesForEntrySignal" ->
                 EntryDeletedEvents(U) \cup Sample(EntryUpdatedEvents(U))
             [] v = "queryLiveEntriesSignal" ->
                 EntryCreatedEvents(U) \cup EntryDeletedEvents(U)
                   \cup Sample(LinkCreatedEvents(v, U)))]]

createLinkToLink(createLink) ==
  [hash |-> createLink.hash, ts |-> createLink.ts, gen |-> createLink.gen]

\* new EntryRecord({entry: ..., signed_action: hcSignal.action})
EntryRecord(signed_action) == signed_action

\* A filter that would drop nothing.
WithoutHashKeepsAll(s, h) == s

WithoutHash(s, h) ==
  SelectSeq(s, LAMBDA l : encodeHashToBase64(l.hash) # encodeHashToBase64(h))
HasHash(s, h) ==
  \E i \in DOMAIN s : encodeHashToBase64(s[i].hash) = encodeHashToBase64(h)

collectionHandler(a, sg, ev) ==
  IF ev.type = "" THEN Keep(a, sg)
  ELSE IF ev.type = "LinkCreated" /\ linkType = ev.link_type
  THEN maybeSet(a, sg, Some(Append(OrEmpty(a), createLinkToLink(ev.action))))
  ELSE IF ev.type = "LinkDeleted" /\ linkType = ev.link_type
  THEN maybeSet(a, sg, Some(WithoutHash(OrEmpty(a), ev.ref)))
  ELSE Keep(a, sg)

liveLinksHandler(a, sg, ev) ==
  IF ev.type = "" THEN Keep(a, sg)
  ELSE IF /\ ev.type = "LinkCreated"
          /\ linkType = ev.link_type
          /\ \/ encodeHashToBase64(ev.base) = encodeHashToBase64(innerBaseAddress)
             \/ encodeHashToBase64(retype(ev.base, "AGENT")) =
                  encodeHashToBase64(innerBaseAddress)
  THEN maybeSet(a, sg, Some(Append(OrEmpty(a), createLinkToLink(ev.action))))
  ELSE IF /\ ev.type = "LinkDeleted"
          /\ linkType = ev.link_type
          /\ encodeHashToBase64(ev.base) = encodeHashToBase64(innerBaseAddress)
  THEN maybeSet(a, sg, Some(WithoutHash(OrEmpty(a), ev.ref)))
  ELSE Keep(a, sg)

\* A handler that would take every EntryUpdated event once a revision is
\* cached.
latestVersionHandlerAny(a, sg, ev) ==
  IF ~active \/ ev.type = "" THEN Keep(a, sg)
  ELSE IF ev.type = "EntryUpdated" /\ IsSome(a)
  THEN Publish(EntryRecord(ev.action))
  ELSE Keep(a, sg)

latestVersionHandler(a, sg, ev) ==
  IF ~active \/ ev.type = "" THEN Keep(a, sg)
  ELSE IF /\ ev.type = "EntryUpdated"
          /\ IsSome(a)
          /\ encodeHashToBase64(Get(a).hash) = encodeHashToBase64(ev.ref)
  THEN Publish(EntryRecord(ev.action))
  ELSE Keep(a, sg)

allRevisionsHandler(a, sg, ev) ==
  IF ~active \/ ev.type = "" THEN Keep(a, sg)
  ELSE IF ev.type = "EntryUpdated" /\ IsSome(a) /\ HasHash(Get(a), ev.ref)
  THEN Publish(Append(Get(a), EntryRecord(ev.action)))
  ELSE Keep(a, sg)

\* A handler that would take every EntryDeleted event for its own entry.
deletesHandlerUnfiltered(a, sg, ev) ==
  IF ~active \/ ev.type = "" THEN Keep(a, sg)
  ELSE IF ev.type = "EntryDeleted"
  THEN Publish(uniquifyActions(Append(OrEmpty(a), ev.action)))
  ELSE Keep(a, sg)

deletesHandler(a, sg, ev) ==
  IF ~active \/ ev.type = "" THEN Keep(a, sg)
  ELSE IF /\ ev.type = "EntryDeleted"
          /\ encodeHashToBase64(ev.ref) = encodeHashToBase64(originalActionHash)
  THEN Publish(uniquifyActions(Append(OrEmpty(a), ev.action)))
  ELSE Keep(a, sg)

queryHandler(a, sg, ev) ==
  IF ~active \/ ev.type = "" THEN Keep(a, sg)
  ELSE IF ev.type = "EntryCreated" /\ ev.app_type = entry_type
  THEN Publish(Append(OrEmpty(a), EntryRecord(ev.action)))
  ELSE IF ev.type = "EntryDeleted" /\ IsSome(a) /\ HasHash(Get(a), ev.ref)
  THEN Publish(WithoutHash(Get(a), ev.ref))
  ELSE Keep(a, sg)

\* findIndex over the create links; 0 stands for -1.
IndexOfCreate(s, h) ==
  IF \E i \in DOMAIN s : encodeHashToBase64(s[i].cl.hash) = encodeHashToBase64(h)
  THEN CHOOSE i \in DOMAIN s :
         /\ encodeHashToBase64(s[i].cl.hash) = encodeHashToBase64(h)
         /\ \A j \in 1..(i - 1) :
              encodeHashToBase64(s[j].cl.hash) # encodeHashToBase64(h)
  ELSE 0

deletedLinksHandler(a, sg, ev) ==
  IF ev.type = "" THEN Keep(a, sg)
  ELSE IF /\ ev.type = "LinkDeleted"
          /\ linkType = ev.link_type
          /\ encodeHashToBase64(ev.base) = encodeHashToBase64(innerBaseAddress)
  THEN LET lastDeletedLinks == OrEmpty(a)
           alreadyDeletedTargetIndex == IndexOfCreate(lastDeletedLinks, ev.ref)
       IN IF alreadyDeletedTargetIndex # 0
          THEN IF ~HasHash(lastDeletedLinks[alreadyDeletedTargetIndex].dls, ev.action.hash)
               THEN LET clone ==
                          [lastDeletedLinks EXCEPT ![alreadyDeletedTargetIndex].dls =
                             Append(@, ev.action)]
                    IN maybeSetDeleted(a, sg, clone)
               ELSE Keep(a, sg)
          ELSE maybeSetDeleted(a, sg,
                 Append(lastDeletedLinks, Pair(Item(ev.ref, 0), <<ev.action>>)))
  ELSE Keep(a, sg)

Handled(a, sg, ev) ==
  CASE cfg.variant = "collectionSignal" -> collectionHandler(a, sg, ev)
    [] cfg.variant = "liveLinksSignal" -> liveLinksHandler(a, sg, ev)
    [] cfg.variant = "deletedLinksSignal" -> deletedLinksHandler(a, sg, ev)
    [] cfg.variant = "latestVersionOfEntrySignal" -> latestVersionHandler(a, sg, ev)
    [] cfg.variant = "allRevisionsOfEntrySignal" -> allRevisionsHandler(a, sg, ev)
    [] cfg.variant = "deletesForEntrySignal" -> deletesHandler(a, sg, ev)
    [] cfg.variant = "queryLiveEntriesSignal" -> queryHandler(a, sg, ev)

\* ------------------------------------------------- what a fetch may return
\* Deleted links: the create link a with one delete, with two, and with the
\* same two in the other order; and the create link b. A fetch returns a
\* create link once.
MinOf(U) == CHOOSE h \in U : \A k \in U : h <= k
MaxOf(U) == CHOOSE h \in U : \A k \in U : h >= k
PairsOf(U) ==
  LET a == Item(MinOf(U), 0)
      b == Item(MaxOf(U), 0)
  IN {Pair(a, <<a>>), Pair(a, <<a, b>>), Pair(a, <<b, a>>), Pair(b, <<a>>)}

Arrays(S) == {Some(s) : s \in SeqsUpTo(S, MaxLen)}

FetchResultsOf ==
  [v \in Variants |-> [U \in Universes |->
     CASE v \in LinkVariants \cup {"deletesForEntrySignal"} -> {None} \cup Arrays(ItemsOf(U))
       [] v \in {"allRevisionsOfEntrySignal", "queryLiveEntriesSignal"} -> Arrays(ItemsOf(U))
       [] v = "deletedLinksSignal" ->
            {r \in Arrays(PairsOf(U)) :
               \A i, j \in DOMAIN Get(r) : i # j => Get(r)[i].cl # Get(r)[j].cl}
       [] v \in {"latestVersionOfEntrySignal", "immutableEntrySignal"} ->
            {None} \cup {Some(x) : x \in ItemsOf(U)}]]

\* Fetch results in which a link comes in two copies that differ in their
\* payload only, next to a link with a later timestamp.
\* collectionSignal, which keeps one accumulator per session, is run over
\* the two copies alone; the events bring it the other link.
VersionedItems ==
  IF cfg.variant = "collectionSignal" THEN {Item(2, 0), Item(2, 1)}
  ELSE {Item(2, 0), Item(2, 1), Item(3, 0)}
VersionedResults == {None} \cup Arrays(VersionedItems)

\* What the fetch function of the signal may resolve with.
FetchResults ==
  IF cfg.copies THEN VersionedResults
  ELSE FetchResultsOf[cfg.variant][cfg.hashes]

\* An array the handlers only ever push to is cut off at this length.
AccCap == MaxLen
Fits(a) ==
  cfg.variant \in {"allRevisionsOfEntrySignal", "queryLiveEntriesSignal"} /\ IsSome(a)
    => Len(Get(a)) <= AccCap

\* ------------------------------------------------- immutableEntrySignal
\* A budget that would allow one attempt too many.
RetryAllowedInclusive(n) == n <= cfg.maxRetries

\* if (retries < maxRetries) setTimeout(() => tryFetch(), pollInterval)
RetryAllowed(n) == n < cfg.maxRetries

\* The .then and .catch handlers of tryFetch: the result they leave, whether
\* they set cached, and whether they scheduled another tryFetch.
\* A .then that would put the result back to pending when it schedules
\* another attempt.
tryFetchResolvedResets(sg, n, value) ==
  IF IsSome(value)
  THEN [sig |-> Completed(Get(value)), set |-> TRUE, cached |-> TRUE, retry |-> FALSE]
  ELSE IF RetryAllowed(n)
  THEN [sig |-> Pending, set |-> TRUE, cached |-> cached, retry |-> TRUE]
  ELSE [sig |-> ErrorResult(NotFoundError), set |-> TRUE, cached |-> cached, retry |-> FALSE]

tryFetchResolved(sg, n, value) ==
  IF IsSome(value)
  THEN [sig |-> Completed(Get(value)), set |-> TRUE, cached |-> TRUE, retry |-> FALSE]
  ELSE IF RetryAllowed(n)
  THEN [sig |-> sg, set |-> FALSE, cached |-> cached, retry |-> TRUE]
  ELSE [sig |-> ErrorResult(NotFoundError), set |-> TRUE, cached |-> cached, retry |-> FALSE]

\* A .catch that would publish the error without looking at the budget.
tryFetchRejectedAtOnce(sg, n, error) ==
  [sig |-> ErrorResult(error), set |-> TRUE, cached |-> cached, retry |-> FALSE]

tryFetchRejected(sg, n, error) ==
  IF RetryAllowed(n)
  THEN [sig |-> sg, set |-> FALSE, cached |-> cached, retry |-> TRUE]
  ELSE [sig |-> ErrorResult(error), set |-> TRUE, cached |-> cached, retry |-> FALSE]

\* ------------------------------------------------------------ the actions
IsImmutable == cfg.variant = "immutableEntrySignal"
Did(op, set) == [op |-> op, set |-> set]

\* A fetch without its guard.
FetchGuardAbsent == TRUE

\* if (!active) return, at the top of fetch
FetchGuard == active

\* An unwatched hook that would reset the result whatever is cached.
DeactivatedAlways(sg) == Pending

\* The result the unwatched hook leaves: if (cached) return, in
\* immutableEntrySignal; signal.set({ status: 'pending' }) everywhere.
Deactivated(sg) == IF IsImmutable /\ cached THEN sg ELSE Pending

\* A .finally that would schedule nothing.
AfterSettleStops == "none"

\* .finally(() => { if (active) setTimeout(() => fetch(), pollIntervalMs) })
AfterSettle == IF active THEN "timer" ELSE "none"

\* if (cached) return, at the top of the watched hook of
\* immutableEntrySignal: the hook declares no retries and starts no chain,
\* so it opens no session.
ShortCircuits == IsImmutable /\ cached

\* [Signal.subtle.watched]
Watched ==
  /\ ~observed
  /\ ShortCircuits \/ session < MaxSessions
  /\ observed' = TRUE
  /\ session' = IF ShortCircuits THEN session ELSE session + 1
  /\ IF IsImmutable
     THEN /\ IF ShortCircuits
             THEN UNCHANGED <<retries, chain, calls>>
             ELSE /\ retries' = [retries EXCEPT ![session + 1] = 1]
                  /\ chain' = [chain EXCEPT ![session + 1] = "first"]
                  /\ calls' = Bump(calls)
          /\ UNCHANGED <<active, handlers, unsubs>>
     ELSE /\ active' = TRUE
          /\ chain' = [chain EXCEPT ![session + 1] = "first"]
          /\ calls' = Bump(calls)
          /\ handlers' = handlers \cup {session + 1}
          /\ unsubs' = session + 1
          /\ UNCHANGED retries
  /\ last' = Did("watched", FALSE)
  /\ hist' = NoHist
  /\ UNCHANGED <<cfg, cached, acc, signal, join>>

\* An unwatched hook that would not unsubscribe.
UnsubscribeNothing(h) == h

\* unsubs(): the client drops the handler whose unsubscribe function the
\* variable holds.
Unsubscribe(h) == h \ {unsubs}

\* [Signal.subtle.unwatched]
Unwatched ==
  /\ observed
  /\ observed' = FALSE
  /\ IF IsImmutable
     THEN /\ signal' = Deactivated(signal)
          /\ last' = Did("unwatched", ~cached)
          /\ UNCHANGED <<active, acc, handlers>>
     ELSE /\ signal' = Deactivated(signal)
          /\ active' = FALSE
          /\ handlers' = Unsubscribe(handlers)
          /\ acc' = IF cfg.variant = "collectionSignal"
                    THEN Collect(acc, chain, handlers')
                    ELSE [acc EXCEPT ![1] = None]
          /\ last' = Did("unwatched", TRUE)
  /\ hist' = NoHist
  /\ UNCHANGED <<cfg, session, cached, retries, chain, unsubs, calls, join>>

\* The callback of a setTimeout: () => fetch(), or () => tryFetch().
TimerFire(s) ==
  /\ chain[s] = "timer"
  /\ IF IsImmutable
     THEN /\ retries' = [retries EXCEPT ![s] = @ + 1]
          /\ chain' = [chain EXCEPT ![s] = "poll"]
          /\ calls' = Bump(calls)
     ELSE /\ chain' = [chain EXCEPT ![s] = IF FetchGuard THEN "poll" ELSE "none"]
          /\ calls' = IF FetchGuard THEN Bump(calls) ELSE calls
          /\ UNCHANGED retries
  /\ acc' = Collect(acc, chain', handlers)
  /\ last' = Did("timer", FALSE)
  /\ UNCHANGED <<cfg, observed, session, active, cached, handlers, unsubs, signal,
                 hist, join>>

\* The promise of the fetch in flight fulfils.
FetchResolve(s) ==
  /\ chain[s] \in {"first", "poll"}
  /\ \E r \in FetchResults :
       IF IsImmutable
       THEN LET eff == tryFetchResolved(signal, retries[s], r)
            IN /\ signal' = eff.sig
               /\ cached' = eff.cached
               /\ chain' = [chain EXCEPT ![s] = IF eff.retry THEN "timer" ELSE "none"]
               /\ last' = Did("resolve", eff.set)
               /\ acc' = acc
               /\ hist' = hist
       ELSE LET eff == Resolved(acc[Cell(s)], signal, r)
            IN /\ signal' = eff.sig
               /\ chain' = [chain EXCEPT ![s] = AfterSettle]
               /\ acc' = Collect([acc EXCEPT ![Cell(s)] = eff.acc], chain', handlers)
               /\ last' = Did("resolve", eff.set)
               /\ cached' = cached
               /\ hist' = AfterResult(s, r, eff.set)
  /\ UNCHANGED <<cfg, observed, session, active, retries, handlers, unsubs, calls,
                 join>>

\* The promise of the fetch in flight rejects.
FetchReject(s) ==
  /\ chain[s] \in {"first", "poll"}
  /\ \E e \in Causes :
       IF IsImmutable
       THEN LET eff == tryFetchRejected(signal, retries[s], e)
            IN /\ signal' = eff.sig
               /\ chain' = [chain EXCEPT ![s] = IF eff.retry THEN "timer" ELSE "none"]
               /\ last' = Did("reject", eff.set)
       ELSE LET eff == Rejected(acc[Cell(s)], signal, e, chain[s] = "first")
            IN /\ signal' = eff.sig
               /\ chain' = [chain EXCEPT ![s] = AfterSettle]
               /\ last' = Did("reject", eff.set)
  /\ acc' = Collect(acc, chain', handlers)
  /\ UNCHANGED <<cfg, observed, session, active, cached, retries, handlers,
                 unsubs, calls, hist, join>>

\* The client delivers a push event to a handler registered with onSignal.
PushEvent(s) ==
  /\ s \in handlers
  /\ \E ev \in EventsOf[cfg.variant][cfg.hashes] :
       LET eff == Handled(acc[Cell(s)], signal, ev)
       IN /\ Fits(eff.acc)
          /\ signal' = eff.sig
          /\ acc' = [acc EXCEPT ![Cell(s)] = eff.acc]
          /\ last' = Did("event", eff.set)
          /\ hist' = AfterEvent(ev, acc[Cell(s)], eff.set)
  /\ UNCHANGED <<cfg, observed, session, active, cached, retries, chain, handlers,
                 unsubs, calls, join>>

Next ==
  \/ Watched
  \/ Unwatched
  \/ \E s \in Sessions : TimerFire(s)
  \/ \E s \in Sessions : FetchResolve(s)
  \/ \E s \in Sessions : FetchReject(s)
  \/ \E s \in Sessions : PushEvent(s)

Spec == Init /\ [][Next]_vars

\* The link collections: liveLinksSignal over the full universe of hashes,
\* collectionSignal, which keeps one accumulator per session, over two
\* hashes with the same timestamp.
InitLinks ==
  /\ cfg \in Traced(ConfigsOf({"liveLinksSignal"}, Full)
                      \cup ConfigsOf({"collectionSignal"}, Ties), "events")
  /\ Constructed
  /\ join = NoJoin
SpecLinks == InitLinks /\ [][Next]_vars

\* The link collections over two hashes with different timestamps, with
\* the results of their fetches recorded.
InitResults ==
  /\ cfg \in Traced({Config(v, 1, "ENTRY", Small) : v \in LinkVariants}, "results")
  /\ Constructed
  /\ join = NoJoin
SpecResults == InitResults /\ [][Next]_vars

\* The link collections over two links with the same timestamp.
InitTies ==
  /\ cfg \in ConfigsOf(LinkVariants, Ties)
  /\ Constructed
  /\ join = NoJoin
SpecTies == InitTies /\ [][Next]_vars

\* The link collections with fetch results that hold copies of a link.
InitCanon ==
  /\ cfg \in WithCopies({Config(v, 1, "ENTRY", Small) : v \in LinkVariants})
  /\ Constructed
  /\ join = NoJoin
SpecCanon == InitCanon /\ [][Next]_vars

\* The mutable variants with their timers fair: a timer set with setTimeout
\* fires after its interval, whatever else the event loop has to run.
InitPoll == cfg \in ConfigsOf(Mutable, Small) /\ Constructed /\ join = NoJoin
SpecPoll ==
  InitPoll /\ [][Next]_vars /\ \A s \in Sessions : WF_vars(TimerFire(s))

\* ----------------------------------------------------------- joinAsyncMap
\* The children of a join: a mapping from some of these keys to the
\* AsyncResult its child signal currently holds.
JoinKeys == {"k1", "k2", "k3"}
ChildResults ==
  {Pending} \cup {Completed(v) : v \in {"v1", "v2"}} \cup {ErrorResult(e) : e \in {"e1", "e2"}}
Policies == {"fail_fast", "filter_out"}

KeysIn(map, status) == {k \in DOMAIN map : map[k].status = status}
ValuesOf(map, keys) == [k \in keys |-> Get(map[k].value)]

\* An aggregation in which an error would take precedence over pending.
joinAsyncMapErrorsFirst(map, errors) ==
  IF errors # "filter_out" /\ KeysIn(map, "error") # {}
  THEN {ErrorResult(map[k].error) : k \in KeysIn(map, "error")}
  ELSE IF KeysIn(map, "pending") # {} THEN {Pending}
  ELSE {Completed(ValuesOf(map, KeysIn(map, "completed")))}

\* An aggregation that would keep the children in error out of the mapping
\* under the default policy as well.
joinAsyncMapAlwaysFilters(map, errors) ==
  IF KeysIn(map, "pending") # {} THEN {Pending}
  ELSE {Completed(ValuesOf(map, KeysIn(map, "completed")))}

\* An aggregation that would report an error under filter_out as well.
joinAsyncMapNeverFilters(map, errors) ==
  IF KeysIn(map, "pending") # {} THEN {Pending}
  ELSE IF KeysIn(map, "error") # {}
  THEN {ErrorResult(map[k].error) : k \in KeysIn(map, "error")}
  ELSE {Completed(ValuesOf(map, KeysIn(map, "completed")))}

\* The aggregates joinAsyncMap may return for the children's results map:
\* which child's cause an error carries is not determined.
joinAsyncMap(map, errors) ==
  IF KeysIn(map, "pending") # {} THEN {Pending}
  ELSE IF errors # "filter_out" /\ KeysIn(map, "error") # {}
  THEN {ErrorResult(map[k].error) : k \in KeysIn(map, "error")}
  ELSE {Completed(ValuesOf(map, KeysIn(map, "completed")))}

\* The aggregate is computed from the children's current results.
Joined(children) ==
  /\ \E r \in joinAsyncMap(children, join.errors) :
       join' = [children |-> children, errors |-> join.errors, result |-> r]
  /\ UNCHANGED <<cfg, observed, session, active, cached, acc, retries, chain,
                 handlers, unsubs, signal, calls, last, hist>>

\* A child signal takes another result.
ChildChanges(k) ==
  /\ k \in DOMAIN join.children
  /\ \E r \in ChildResults \ {join.children[k]} :
       Joined([join.children EXCEPT ![k] = r])

\* The source mapping gains a key, whose signal starts pending.
KeyAdded(k) ==
  /\ k \notin DOMAIN join.children
  /\ Joined([j \in DOMAIN join.children \cup {k} |->
               IF j = k THEN Pending ELSE join.children[j]])

\* The source mapping loses a key.
KeyRemoved(k) ==
  /\ k \in DOMAIN join.children
  /\ Joined([j \in DOMAIN join.children \ {k} |-> join.children[j]])

NextJoin ==
  \/ \E k \in JoinKeys : ChildChanges(k)
  \/ \E k \in JoinKeys : KeyAdded(k)
  \/ \E k \in JoinKeys : KeyRemoved(k)

\* A join over an empty mapping, under either policy.
InitJoin ==
  /\ cfg = Config("joinAsyncMap", 1, "ENTRY", Small)
  /\ Constructed
  /\ \E errors \in Policies :
       join = [children |-> <<>>, errors |-> errors,
               result |-> Completed(ValuesOf(<<>>, {}))]
SpecJoin == InitJoin /\ [][NextJoin]_vars

\* ------------------------------------------------------------ properties
InFlight(s) == chain[s] \in {"first", "poll"}
Live(s) == chain[s] # "none"
IsMutable == cfg.variant \in Mutable

\* The step is the settling, by fulfilment or rejection, of the fetch that
\* session s has in flight.
Settles(s) == InFlight(s) /\ chain'[s] \in {"timer", "none"}

\* C1. Lazy activation: in every state reached before the first watched
\* transition no call to the fetch function has been made, no handler is
\* registered with client.onSignal, and no poll or retry chain exists.
C1_LazyActivation ==
  session = 0 =>
    /\ calls = 0
    /\ handlers = {}
    /\ unsubs = 0
    /\ \A s \in Sessions : ~Live(s)
    /\ signal = Pending

\* The first watched transition has just made the first call to fetch
\* and, in a mutable variant, the first subscription.
C1_Witness ==
  /\ last.op = "watched"
  /\ session = 1
  /\ calls = 1
  /\ InFlight(1)
  /\ IsMutable => handlers = {1}

\* C2. Teardown on last detach: in a mutable variant, while no observer is
\* attached no handler is registered (so no push event is handled), and no
\* step taken while unobserved puts a fetch in flight: a timer that fires
\* then ends its chain.
C2_Teardown ==
  /\ [](IsMutable /\ ~observed => handlers = {})
  /\ [][IsMutable /\ ~observed /\ ~observed' =>
          /\ calls' = calls
          /\ \A s \in Sessions : InFlight(s)' => InFlight(s)
          /\ \A s \in Sessions : chain[s] = "timer" /\ chain'[s] # "timer"
                                   => chain'[s] = "none"]_vars

\* A timer has fired after the last observer detached and started no fetch.
C2_Witness ==
  /\ IsMutable
  /\ ~observed
  /\ last.op = "timer"
  /\ \A s \in Sessions : ~Live(s)
  /\ handlers = {}

C4_WritesAfterDeactivationDiscarded ==
  IsMutable /\ ~observed =>
    /\ signal = Pending
    /\ cfg.variant # "collectionSignal" => acc[1] = None

\* C5. Stale-session results are discarded: in a mutable variant, when a
\* fetch started by an earlier session settles while a later session is
\* observed, neither the result nor the accumulator of the later session
\* changes.
C5_StaleResultsDiscarded ==
  [][\A s \in Sessions :
       IsMutable /\ observed /\ s < session /\ Settles(s) =>
         /\ signal' = signal
         /\ acc'[Cell(session)] = acc[Cell(session)]]_vars

\* C6. At most one fetch in flight: at no time are two calls to the fetch
\* function unresolved, nor two poll or retry chains alive.
C6_AtMostOneFetchInFlight ==
  /\ Cardinality({s \in Sessions : InFlight(s)}) <= 1
  /\ Cardinality({s \in Sessions : Live(s)}) <= 1

\* The step is the fulfilment of a fetch of the current session, which is
\* observed, in a signal whose fetch results are recorded.
CurrentResult(s) ==
  /\ cfg.trace # "none"
  /\ observed
  /\ s = session
  /\ Settles(s)
  /\ last'.op = "resolve"
CachedHashes(s) == HashesOf(Get(acc[Cell(s)]))

\* C7 as stated. Idempotent publish: within one session of collectionSignal
\* or liveLinksSignal, a fulfilled fetch whose deduplicated and sorted
\* sequence of create_link_hash equals that of the fulfilled fetch before
\* it calls no signal.set.
C7_SuccessiveEqualResults ==
  [][\A s \in Sessions :
       CurrentResult(s) /\ IsSome(hist.ok) /\ hist'.ok = hist.ok => ~last'.set]_vars

\* C7, amended. Within one session of collectionSignal or liveLinksSignal,
\* a fulfilled fetch whose deduplicated and sorted sequence of
\* create_link_hash equals that of the cached collection calls no
\* signal.set and leaves result and cache as they are.
C7_IdempotentPublish ==
  [][\A s \in Sessions :
       CurrentResult(s) /\ IsSome(acc[Cell(s)]) /\ Get(hist'.ok) = CachedHashes(s) =>
         /\ ~last'.set
         /\ signal' = signal
         /\ acc'[Cell(s)] = acc[Cell(s)]]_vars

\* The only session so far has had a fetch fulfilled with the two links it
\* has cached and published, and nothing was set.
C7_Witness ==
  /\ cfg.trace = "results"
  /\ session = 1
  /\ observed
  /\ last.op = "resolve"
  /\ ~last.set
  /\ chain[1] = "timer"
  /\ IsSome(hist.ok)
  /\ IsSome(acc[Cell(1)])
  /\ Get(hist.ok) = CachedHashes(1)
  /\ Len(Get(hist.ok)) = 2
  /\ signal = Completed(Get(acc[Cell(1)]))

\* C8. Push/poll convergence: within one session of collectionSignal or
\* liveLinksSignal with a cached collection, after a LinkCreated event has
\* published the collection with a new link, a poll started later that
\* returns exactly the links of the cache calls no signal.set.
C8_PushPollConvergence ==
  [][\A s \in Sessions :
       /\ CurrentResult(s)
       /\ cfg.trace = "events"
       /\ hist.ev
       /\ IsSome(acc[Cell(s)])
       /\ ElementsOf(Get(hist'.ok)) = ElementsOf(CachedHashes(s))
       => ~last'.set]_vars

\* C9. Retry budget: immutableEntrySignal observed once and kept observed
\* calls fetch at most maxRetries times; while nothing has been found the
\* result is pending as long as the chain is alive, and once the chain has
\* ended maxRetries calls have been made and the result is an error, a
\* NotFoundError when the last attempt resolved to undefined.
C9_RetryBudget ==
  IsImmutable /\ session = 1 /\ observed =>
    /\ calls = retries[1]
    /\ calls <= cfg.maxRetries
    /\ ~cached =>
         IF Live(1)
         THEN signal = Pending
         ELSE calls = cfg.maxRetries /\ signal.status = "error"
    /\ signal.status = "error" /\ last.op = "resolve" => signal.error = NotFoundError

\* The largest budget is used up by not-found results and the chain has
\* ended on a NotFoundError.
C9_Witness ==
  /\ IsImmutable
  /\ session = 1
  /\ observed
  /\ cfg.maxRetries = MaxRetriesBound
  /\ calls = MaxRetriesBound
  /\ ~Live(1)
  /\ last.op = "resolve"
  /\ signal = ErrorResult(NotFoundError)

\* C10. In immutableEntrySignal a rejection uses the budget as a not-found
\* result does: an attempt before the last one that rejects or finds
\* nothing leaves the result alone and schedules the next attempt; the last
\* one ends the chain with the thrown cause when it rejected and with a
\* NotFoundError when it resolved to undefined.
C10_RejectionsShareBudget ==
  [][\A s \in Sessions :
       IsImmutable /\ Settles(s)
                   /\ ~(last'.op = "resolve" /\ signal'.status = "completed" /\ last'.set) =>
         IF retries[s] < cfg.maxRetries
         THEN signal' = signal /\ chain'[s] = "timer" /\ retries'[s] = retries[s]
         ELSE /\ chain'[s] = "none"
              /\ last'.op = "reject" => signal' = ErrorResult(FetchError)
              /\ last'.op = "resolve" => signal' = ErrorResult(NotFoundError)]_vars

\* The last attempt of the largest budget rejected and the result carries
\* the cause.
C10_Witness ==
  /\ IsImmutable
  /\ session = 1
  /\ cfg.maxRetries = MaxRetriesBound
  /\ retries[1] = MaxRetriesBound
  /\ ~Live(1)
  /\ last.op = "reject"
  /\ signal = ErrorResult(FetchError)

\* C11. Permanent cache of an immutable entry: once a fetch of
\* immutableEntrySignal has found the entry, every later watched transition
\* starts no fetch and leaves the signal completed with the value it holds.
C11_PermanentCache ==
  [][IsImmutable /\ cached /\ ~observed /\ observed' =>
       /\ calls' = calls
       /\ chain' = chain
       /\ retries' = retries
       /\ signal' = signal
       /\ signal'.status = "completed"]_vars

\* C12. In immutableEntrySignal a completed result stays completed: no step
\* takes it to error or to pending.
C12_CompletedIsFinal ==
  [][IsImmutable /\ signal.status = "completed" => signal'.status = "completed"]_vars

\* C13. immutableEntrySignal makes requests only until it succeeds: once a
\* fetch has found the entry no step calls the fetch function.
C13_NoFetchAfterSuccess ==
  [][IsImmutable /\ cached => calls' = calls]_vars

\* A LinkCreated event of the configured link type whose base_address is
\* the agent form of the configured base, for a link that is not cached.
AgentFormCreates ==
  {ev \in EventsOf[cfg.variant][cfg.hashes] :
     /\ ev.type = "LinkCreated"
     /\ ev.link_type = linkType
     /\ ev.base = Address("AGENT", cfg.baseAddress.core)
     /\ ~HasHash(OrEmpty(acc[1]), ev.action.hash)}

\* C14. Base re-typing: whenever the handler of an observed liveLinksSignal
\* is registered, a LinkCreated event of the configured link type whose
\* base_address is the agent form of the configured base is handled by
\* publishing the collection with the new link in it.
C14_BaseRetyping ==
  cfg.variant = "liveLinksSignal" /\ observed /\ session \in handlers =>
    \A ev \in AgentFormCreates :
      LET eff == Handled(acc[1], signal, ev)
      IN /\ eff.set
         /\ eff.sig.status = "completed"
         /\ HasHash(Get(eff.sig.value), ev.action.hash)

\* C15. Immediate error surfacing: in a mutable variant, when a fetch of
\* the observed session rejects, first fetch or later poll, the result
\* becomes an error carrying the cause.
C15_ErrorSurfacing ==
  [][\A s \in Sessions :
       IsMutable /\ observed /\ s = session /\ Settles(s) /\ last'.op = "reject" =>
         /\ signal'.status = "error"
         /\ signal'.error \in Causes]_vars

\* A joinAsyncMap is in play.
Joining == join.errors \in Policies

C17_FailFast ==
  Joining /\ join.errors = "fail_fast" /\ KeysIn(join.children, "pending") = {} =>
    IF KeysIn(join.children, "error") # {}
    THEN /\ join.result.status = "error"
         /\ \E k \in KeysIn(join.children, "error") :
              join.result.error = join.children[k].error
    ELSE /\ join.result.status = "completed"
         /\ DOMAIN Get(join.result.value) = DOMAIN join.children
         /\ \A k \in DOMAIN join.children :
              Get(join.result.value)[k] = Get(join.children[k].value)

\* Two children, one completed and one in error, under the default policy:
\* the aggregate is an error.
C17_Witness ==
  /\ join.errors = "fail_fast"
  /\ Cardinality(DOMAIN join.children) = 2
  /\ Cardinality(KeysIn(join.children, "completed")) = 1
  /\ Cardinality(KeysIn(join.children, "error")) = 1
  /\ join.result.status = "error"

\* C18. Aggregation, filter_out policy: with no child pending the aggregate
\* is completed with the values of exactly the completed children.
C18_FilterOut ==
  Joining /\ join.errors = "filter_out" /\ KeysIn(join.children, "pending") = {} =>
    /\ join.result.status = "completed"
    /\ DOMAIN Get(join.result.value) = KeysIn(join.children, "completed")
    /\ \A k \in KeysIn(join.children, "completed") :
         Get(join.result.value)[k] = Get(join.children[k].value)

\* Two children, one completed and one in error, under filter_out: the
\* aggregate is completed with the one entry of the completed child.
C18_Witness ==
  /\ join.errors = "filter_out"
  /\ Cardinality(DOMAIN join.children) = 2
  /\ Cardinality(KeysIn(join.children, "completed")) = 1
  /\ Cardinality(KeysIn(join.children, "error")) = 1
  /\ join.result.status = "completed"
  /\ Cardinality(DOMAIN Get(join.result.value)) = 1

\* The step is the unwatched transition.
Deactivates == observed /\ ~observed'

\* C19 as stated. AsyncResult transition rules: every change of the result
\* is pending to completed, pending to error, completed to completed,
\* completed to error, or a change to pending at the unwatched transition;
\* a result in error is left only for pending at the unwatched transition.
C19_TransitionRules ==
  [][signal' # signal =>
       \/ Deactivates /\ signal' = Pending
       \/ signal.status = "pending" /\ signal'.status \in {"completed", "error"}
       \/ signal.status = "completed" /\ signal'.status \in {"completed", "error"}]_vars

\* C19, amended. Every change of the result either happens at the unwatched
\* transition and leaves it pending, or leaves it completed or in error,
\* whatever it was before: the result becomes pending at deactivation only.
C19_PendingOnlyAtDeactivation ==
  [][signal' # signal =>
       \/ Deactivates /\ signal' = Pending
       \/ ~Deactivates /\ signal'.status \in {"completed", "error"}]_vars

\* A session of collectionSignal that had published its links has been
\* deactivated, and the result is pending again.
C19_Witness ==
  /\ cfg.variant = "collectionSignal"
  /\ last.op = "unwatched"
  /\ session \in Sessions
  /\ IsSome(acc[session])
  /\ signal = Pending

\* C20. Eventual synchronization, on finite runs: within a session of
\* collectionSignal or liveLinksSignal that is observed, a fulfilled fetch
\* leaves the result completed with the deduplicated and sorted links it
\* returned, whatever the result was before (when every later fetch returns
\* the same links and no event arrives, the result the first of them leaves
\* is the result for ever).
C20_EventualSynchronization ==
  [][\A s \in Sessions :
       CurrentResult(s) =>
         /\ signal'.status = "completed"
         /\ HashesOf(Get(signal'.value)) = Get(hist'.ok)]_vars

\* C21. Poll chain: in a mutable variant the watched hook puts the first
\* fetch of its session in flight; a fetch that settles, fulfilled or
\* rejected, leaves its session with one timer if the signal is active and
\* with nothing otherwise; a timer that fires while the signal is observed
\* starts a fetch; and, timers being fair, a session waiting on its timer
\* gets its next fetch in flight unless the observer detaches first.
C21_PollChain ==
  /\ [][IsMutable /\ ~observed /\ observed' =>
          /\ session' = session + 1
          /\ chain'[session'] = "first"
          /\ calls' = Bump(calls)]_vars
  /\ [][\A s \in Sessions :
          IsMutable /\ Settles(s) =>
            chain'[s] = IF active THEN "timer" ELSE "none"]_vars
  /\ [][\A s \in Sessions :
          IsMutable /\ observed /\ chain[s] = "timer" /\ chain'[s] # "timer" =>
            chain'[s] = "poll"]_vars
  /\ \A s \in Sessions :
       (IsMutable /\ observed /\ chain[s] = "timer") ~> (chain[s] = "poll" \/ ~observed)

\* The first fetch of the only session was rejected and published as an
\* error, and the timer set after it has fired: the next fetch is in flight.
C21_Witness ==
  /\ IsMutable
  /\ observed
  /\ session = 1
  /\ signal.status = "error"
  /\ last.op = "timer"
  /\ chain[1] = "poll"

\* C22. One subscription per session: in a mutable variant the handlers
\* registered with client.onSignal and not unsubscribed are the handler of
\* the current session alone while the signal is observed, and none while
\* it is not; the watched hook registers a handler that was not registered
\* before, and the unwatched hook removes the handler of the session that
\* ends and no other.
C22_OneSubscription ==
  /\ [](IsMutable => handlers = IF observed THEN {session} ELSE {})
  /\ [][IsMutable /\ ~observed /\ observed' =>
          /\ session' \notin handlers
          /\ handlers' = handlers \cup {session'}]_vars
  /\ [][IsMutable /\ observed /\ ~observed' =>
          /\ session \in handlers
          /\ handlers' = handlers \ {session}]_vars

\* The second session is observed and only its handler is registered.
C22_Witness ==
  /\ IsMutable
  /\ observed
  /\ session = 2
  /\ handlers = {2}
  /\ unsubs = 2

\* C23. NotFound comes from the bounded-retry path only: a mutable variant
\* never holds an error result that carries a NotFoundError.
C23_NotFoundOnlyImmutable ==
  IsMutable => signal # ErrorResult(NotFoundError)

\* The kinds of event the handler of a variant looks at.
HandledKinds ==
  CASE cfg.variant \in LinkVariants -> {"LinkCreated", "LinkDeleted"}
    [] cfg.variant = "deletedLinksSignal" -> {"LinkDeleted"}
    [] cfg.variant \in {"latestVersionOfEntrySignal", "allRevisionsOfEntrySignal"} ->
         {"EntryUpdated"}
    [] cfg.variant = "deletesForEntrySignal" -> {"EntryDeleted"}
    [] cfg.variant = "queryLiveEntriesSignal" -> {"EntryCreated", "EntryDeleted"}
    [] OTHER -> {}

\* The event is none of the signal's: it has no type tag, or a kind the
\* variant does not handle, or another link type, or the base address of
\* another entry or agent, or it replaces or deletes something else than
\* what the signal is about, or it creates an entry of another type.
NonMatching(a, ev) ==
  \/ ev.type = ""
  \/ ev.type \notin HandledKinds
  \/ /\ cfg.variant \in LinkVariants \cup {"deletedLinksSignal"}
     /\ ev.link_type # linkType
  \/ /\ cfg.variant \in {"liveLinksSignal", "deletedLinksSignal"}
     /\ ev.base.core # cfg.baseAddress.core
  \/ /\ cfg.variant = "latestVersionOfEntrySignal"
     /\ ~IsSome(a) \/ Get(a).hash # ev.ref
  \/ /\ cfg.variant = "allRevisionsOfEntrySignal"
     /\ ~IsSome(a) \/ \A i \in DOMAIN Get(a) : Get(a)[i].hash # ev.ref
  \/ /\ cfg.variant = "deletesForEntrySignal"
     /\ ev.ref # originalActionHash
  \/ /\ cfg.variant = "queryLiveEntriesSignal"
     /\ ev.type = "EntryDeleted"
     /\ ~IsSome(a) \/ \A i \in DOMAIN Get(a) : Get(a)[i].hash # ev.ref
  \/ /\ cfg.variant = "queryLiveEntriesSignal"
     /\ ev.type = "EntryCreated"
     /\ ev.app_type # entry_type

\* C24. Non-matching push events leave the signal unchanged: whatever the
\* state a registered handler is called in, an event that is none of the
\* signal's makes it call no signal.set and leaves the result and the
\* cached accumulator as they are.
C24_NonMatchingIgnored ==
  IsMutable =>
    \A s \in handlers :
      \A ev \in EventsOf[cfg.variant][cfg.hashes] :
        NonMatching(acc[Cell(s)], ev) =>
          LET eff == Handled(acc[Cell(s)], signal, ev)
          IN /\ ~eff.set
             /\ eff.sig = signal
             /\ eff.acc = acc[Cell(s)]

\* deletesForEntrySignal, which publishes at every event it takes, holds a
\* published list and has just handled an event without publishing.
C24_Witness ==
  /\ cfg.variant = "deletesForEntrySignal"
  /\ observed
  /\ last.op = "event"
  /\ ~last.set
  /\ signal.status = "completed"
  /\ \E ev \in EventsOf[cfg.variant][cfg.hashes] : NonMatching(acc[1], ev)

\* C25. Canonical ordering is deterministic: within a session of
\* collectionSignal or liveLinksSignal, a fulfilled fetch whose links,
\* deduplicated, are the cached links in whatever order, among them links
\* with equal timestamps, calls no signal.set and leaves the cached order.
C25_DeterministicOrdering ==
  [][\A s \in Sessions :
       /\ CurrentResult(s)
       /\ IsSome(acc[Cell(s)])
       /\ ElementsOf(Get(hist'.ok)) = ElementsOf(CachedHashes(s))
       /\ Len(Get(hist'.ok)) = Len(CachedHashes(s))
       => /\ ~last'.set
          /\ acc'[Cell(s)] = acc[Cell(s)]]_vars

\* A collection in canonical form, and one that holds of every link of
\* the input its last occurrence and nothing else.
SortedByTimestamp(s) == \A i, j \in DOMAIN s : i < j => s[i].ts <= s[j].ts
NoDuplicates(s) == \A i, j \in DOMAIN s : i # j => s[i].hash # s[j].hash
KeepsLastOf(out, in) ==
  /\ {out[k].hash : k \in DOMAIN out} = {in[j].hash : j \in DOMAIN in}
  /\ \A k \in DOMAIN out :
       \E j \in DOMAIN in :
         /\ in[j] = out[k]
         /\ \A m \in (j + 1)..Len(in) : in[m].hash # out[k].hash

\* C26. Published link collections are canonical: in collectionSignal and
\* liveLinksSignal every completed value is sorted ascending by timestamp
\* and holds no create_link_hash twice, and whatever a fetch in flight
\* resolves with, copies of a link and any order included, what it
\* publishes is canonical and holds of every link its last occurrence.
C26_PublishedCanonical ==
  cfg.variant \in LinkVariants =>
    /\ signal.status = "completed" =>
         SortedByTimestamp(Get(signal.value)) /\ NoDuplicates(Get(signal.value))
    /\ \A s \in Sessions :
         InFlight(s) =>
           \A r \in FetchResults :
             LET eff == Resolved(acc[Cell(s)], signal, r)
             IN eff.set =>
                  /\ eff.sig.status = "completed"
                  /\ SortedByTimestamp(Get(eff.sig.value))
                  /\ NoDuplicates(Get(eff.sig.value))
                  /\ KeepsLastOf(Get(eff.sig.value), OrEmpty(r))

\* A fetch has just published the later copy of a link, in front of a link
\* with a later timestamp.
C26_Witness ==
  /\ cfg.copies
  /\ cfg.variant = "liveLinksSignal"
  /\ observed
  /\ last.op = "resolve"
  /\ last.set
  /\ signal = Completed(<<Item(2, 1), Item(3, 0)>>)

\* The variants that keep a list of records or of delete actions.
EntryListVariants ==
  {"allRevisionsOfEntrySignal", "queryLiveEntriesSignal", "deletesForEntrySignal"}

\* C27. Deduplication in the entry-based collection variants: no completed
\* value of allRevisionsOfEntrySignal, queryLiveEntriesSignal or
\* deletesForEntrySignal holds two items with the same action hash, whatever
\* events were delivered and however often.
C27_EntryListsDeduplicated ==
  cfg.variant \in EntryListVariants /\ signal.status = "completed" =>
    NoDuplicates(Get(signal.value))

\* C28. Idempotent publish in deletesForEntrySignal: with a list of deletes
\* cached, a fetch of the observed session that resolves with an array
\* whose deduplicated sequence of action hashes is that of the cached list,
\* and an EntryDeleted event for the signal's entry whose delete is in the
\* cached list, call no signal.set.
C28_DeletesIdempotentPublish ==
  cfg.variant = "deletesForEntrySignal" /\ observed /\ IsSome(acc[1]) =>
    /\ InFlight(session) =>
         \A r \in FetchResults :
           /\ IsSome(r)
           /\ HashesOf(uniquifyActions(Get(r))) = HashesOf(Get(acc[1]))
           => ~Resolved(acc[1], signal, r).set
    /\ session \in handlers =>
         \A ev \in EventsOf[cfg.variant][cfg.hashes] :
           /\ ev.type = "EntryDeleted"
           /\ ev.ref = originalActionHash
           /\ HasHash(Get(acc[1]), ev.action.hash)
           => ~Handled(acc[1], signal, ev).set

\* The event is about the signal's links: it has the signal's link type
\* and, where the variant filters on it, the signal's base address.
OwnLinkEvent(ev) ==
  /\ ev.type \in {"LinkCreated", "LinkDeleted"}
  /\ ev.link_type = linkType
  /\ cfg.variant = "liveLinksSignal" => ev.base = innerBaseAddress
Removed(L, h) == SelectSeq(L, LAMBDA l : l.hash # h)

\* C29. Incremental link edits: in collectionSignal and liveLinksSignal,
\* whenever a registered handler has a collection L cached, a LinkDeleted
\* event of the signal for a link in L publishes L without that link, the
\* others in their order; a LinkDeleted event for a link not in L and a
\* LinkCreated event for a link whose create_link_hash is in L call no
\* signal.set and leave L and the result as they are.
C29_IncrementalLinkEdits ==
  cfg.variant \in LinkVariants =>
    \A s \in handlers :
      IsSome(acc[Cell(s)]) =>
        \A ev \in EventsOf[cfg.variant][cfg.hashes] :
          LET L == Get(acc[Cell(s)])
              eff == Handled(acc[Cell(s)], signal, ev)
              inL(h) == \E i \in DOMAIN L : L[i].hash = h
          IN /\ OwnLinkEvent(ev) /\ ev.type = "LinkDeleted" /\ inL(ev.ref) =>
                  /\ eff.set
                  /\ eff.sig = Completed(Removed(L, ev.ref))
                  /\ eff.acc = Some(Removed(L, ev.ref))
             /\ OwnLinkEvent(ev) /\ ev.type = "LinkDeleted" /\ ~inL(ev.ref) =>
                  /\ ~eff.set
                  /\ eff.sig = signal
                  /\ eff.acc = Some(L)
             /\ OwnLinkEvent(ev) /\ ev.type = "LinkCreated" /\ inL(ev.action.hash) =>
                  /\ ~eff.set
                  /\ eff.sig = signal
                  /\ eff.acc = Some(L)

\* The handler of the observed session, with both links of the universe
\* cached and published, has just handled an event and published nothing.
C29_Witness ==
  /\ cfg.variant \in LinkVariants
  /\ cfg.hashes = Ties
  /\ observed
  /\ session \in handlers
  /\ last.op = "event"
  /\ ~last.set
  /\ signal.status = "completed"
  /\ Len(Get(signal.value)) = 2
  /\ acc[Cell(session)] = signal.value
  /\ \E ev \in EventsOf[cfg.variant][cfg.hashes] :
       OwnLinkEvent(ev) /\ ev.type = "LinkDeleted"

\* C30. In latestVersionOfEntrySignal, whatever state the registered
\* handler is called in, an EntryUpdated event replaces the cached and
\* published revision by its own exactly when a revision is cached whose
\* action hash is the event's original_action_address, and changes nothing
\* otherwise; the same event delivered a second time publishes nothing (an
\* update is not its own original).
C30_LatestVersionReplacement ==
  cfg.variant = "latestVersionOfEntrySignal" =>
    \A s \in handlers :
      \A ev \in EventsOf[cfg.variant][cfg.hashes] :
        ev.type = "EntryUpdated" =>
          LET eff == Handled(acc[1], signal, ev)
          IN IF IsSome(acc[1]) /\ Get(acc[1]).hash = ev.ref
             THEN /\ eff.set
                  /\ eff.sig = Completed(ev.action)
                  /\ eff.acc = Some(ev.action)
                  /\ ev.action.hash # ev.ref => ~Handled(eff.acc, eff.sig, ev).set
             ELSE /\ ~eff.set
                  /\ eff.sig = signal
                  /\ eff.acc = acc[1]

\* The handler has just published the revision of an EntryUpdated event,
\* which is now the cached one.
C30_Witness ==
  /\ cfg.variant = "latestVersionOfEntrySignal"
  /\ observed
  /\ last.op = "event"
  /\ last.set
  /\ signal = Completed(Item(3, 0))
  /\ acc[1] = Some(Item(3, 0))

\* A candidate of deletedLinksSignal in the order maybeSet puts it in, and
\* the collection an event edit hands to maybeSet: the delete appended to
\* the nested list of its create link, or a new pair appended.
OrderedCandidate(cand) ==
  LET byCreate == SortStable(cand, sortDeletedLinksByTimestampAscending)
  IN [i \in DOMAIN byCreate |->
        Pair(byCreate[i].cl, SortStable(byCreate[i].dls, sortActionsByTimestampAscending))]
CreateCached(L, h) == \E i \in DOMAIN L : L[i].cl.hash = h
DeleteCached(L, h, d) == \E i \in DOMAIN L : L[i].cl.hash = h /\ HasHash(L[i].dls, d)
EditedBy(L, ev) ==
  IF CreateCached(L, ev.ref)
  THEN [i \in DOMAIN L |->
          IF L[i].cl.hash = ev.ref THEN Pair(L[i].cl, Append(L[i].dls, ev.action)) ELSE L[i]]
  ELSE Append(L, Pair(Item(ev.ref, 0), <<ev.action>>))

\* At some position the candidate has no cached item, or a nested list of
\* deletes with another hash sequence than the cached one.
DiffersNested(cand, L) ==
  \E i \in DOMAIN cand :
    \/ i > Len(L)
    \/ HashesOf(OrderedCandidate(cand)[i].dls) # HashesOf(L[i].dls)

\* The LinkDeleted event is one the handler of deletedLinksSignal edits its
\* collection for.
OwnDeletedLink(L, ev) ==
  /\ ev.type = "LinkDeleted"
  /\ ev.link_type = linkType
  /\ ev.base = innerBaseAddress
  /\ ~DeleteCached(L, ev.ref, ev.action.hash)

\* C31. In deletedLinksSignal, with a collection L cached, a candidate that
\* at some position has no cached item or another nested list of deletes
\* is not published and leaves L and the result as they are, whether a
\* fetch in flight resolves with it or an event edit produces it, and also
\* when its create links are those of L.
C31_NestedDifferenceAborts ==
  cfg.variant = "deletedLinksSignal" /\ IsSome(acc[1]) =>
    /\ \A s \in Sessions :
         InFlight(s) =>
           \A r \in FetchResults :
             DiffersNested(Get(r), Get(acc[1])) =>
               Resolved(acc[1], signal, r) = Keep(acc[1], signal)
    /\ \A s \in handlers :
         \A ev \in EventsOf[cfg.variant][cfg.hashes] :
           /\ OwnDeletedLink(Get(acc[1]), ev)
           /\ DiffersNested(EditedBy(Get(acc[1]), ev), Get(acc[1]))
           => Handled(acc[1], signal, ev) = Keep(acc[1], signal)

\* deletedLinksSignal has a create link with one delete cached, and a poll
\* that could have brought the second delete has been handled without a
\* publication.
C31_Witness ==
  /\ cfg.variant = "deletedLinksSignal"
  /\ observed
  /\ last.op = "resolve"
  /\ ~last.set
  /\ IsSome(acc[1])
  /\ Len(Get(acc[1])) = 1
  /\ Len(Get(acc[1])[1].dls) = 1
  /\ signal = Completed(Get(acc[1]))
  /\ \E r \in FetchResults :
       /\ MapSeq(Get(r), PairHash) = MapSeq(Get(acc[1]), PairHash)
       /\ DiffersNested(Get(r), Get(acc[1]))

\* C32. In deletedLinksSignal, whenever a registered handler has a
\* collection cached, a LinkDeleted event of the signal whose delete is not
\* cached is published: the published and cached value holds the event's
\* create link, as a new pair when it was not cached, with the event's
\* delete in its nested list.
C32_DeletedLinkEdits ==
  cfg.variant = "deletedLinksSignal" /\ IsSome(acc[1]) =>
    \A s \in handlers :
      \A ev \in EventsOf[cfg.variant][cfg.hashes] :
        OwnDeletedLink(Get(acc[1]), ev) =>
          LET eff == Handled(acc[1], signal, ev)
          IN /\ eff.set
             /\ eff.sig.status = "completed"
             /\ DeleteCached(Get(eff.sig.value), ev.ref, ev.action.hash)
             /\ eff.acc = eff.sig.value

\* C33. Both address forms are checked for LinkDeleted events: in
\* liveLinksSignal and deletedLinksSignal, whatever state a registered
\* handler is called in, a LinkDeleted event of the configured link type
\* whose base address is the signal's base in its agent form or in its
\* entry form does what the same event with the entry form does.
C33_LinkDeletedBothForms ==
  cfg.variant \in {"liveLinksSignal", "deletedLinksSignal"} =>
    \A s \in handlers :
      \A ev \in EventsOf[cfg.variant][cfg.hashes] :
        /\ ev.type = "LinkDeleted"
        /\ ev.link_type = linkType
        /\ ev.base.core = cfg.baseAddress.core
        => Handled(acc[1], signal, ev) =
             Handled(acc[1], signal, [ev EXCEPT !.base = innerBaseAddress])

\* C34. No completed value before the first successful fetch: in a mutable
\* variant, while the first fetch of the observed session is in flight and
\* nothing is cached for the session, the handling of a push event leaves
\* the result as it was, and not completed with what the event brought.
C34_NoValueBeforeFirstFetch ==
  [][/\ IsMutable /\ observed
     /\ chain[session] = "first"
     /\ acc[Cell(session)] = None
     /\ last'.op = "event"
     => signal' = signal /\ signal'.status # "completed"]_vars

====
